---- MODULE Spec2Model ----
(***************************************************************************)
(* Model of the producer/consumer sample: MessageQueue (push/pop under a   *)
(* mutex with a condition variable), DatabaseService, MiddlewareService,   *)
(* DistributedTaskProcessor, the worker loop and main, as written in       *)
(* DistributedSystemCodeSample.cpp (the variant whose main joins).         *)
(***************************************************************************)
EXTENDS Bags, FiniteSets, Integers, Sequences, TLC

(* ---------------- program constants ---------------- *)
NumWorkers == 3
NumTasks == 5
MaxValidId == 5

(* ---------------- bounds of the model ---------------- *)
MaxSpurious == 1
MaxPush == 2
MaxTestId == 100

\* ids the queue harness pushes, and ids the handler harness is called with
IdSet == {0, 1, 2}
TestIds == (-MaxTestId)..MaxTestId

(* ---------------- threads ---------------- *)
WorkerName == <<"w0", "w1", "w2">>
Workers == {WorkerName[k] : k \in 1..NumWorkers}
Producers == {"p1", "p2"}
Pushers == {"main"} \cup Producers
Threads == Pushers \cup Workers
NoThread == "none"

VARIABLES
    tasks,      \* MessageQueue::tasks, head first
    queueMutex, \* owner of MessageQueue::queueMutex, or NoThread
    cv,         \* threads suspended in cv.wait
    pc,         \* position of every thread
    taskId,     \* the worker's local taskId: <<>> before pop returns, else <<id>>
    message,    \* processTask's local message: <<>> or <<string>>
    arg,        \* the argument of the pusher's current push call: <<id>>, or <<>>
                \* outside a call
    i,          \* main's loop variable
    log,        \* bag of the records written to the stream; the writes of
                \* different threads are not ordered by any synchronisation
    pushed,     \* ids appended by push, in the order of the appends
    popped,     \* ids removed by pop, in the order of the removals
    invoked,    \* bag of ids processTask was called with
    finished,   \* bag of ids whose processTask call has returned
    spurious,   \* number of spurious wake-ups so far
    exitCode    \* <<>> while the process lives, <<code>> once it has exited

vars == <<tasks, queueMutex, cv, pc, taskId, message, arg, i, log,
          pushed, popped, invoked, finished, spurious, exitCode>>

\* threads take steps only while the process lives
Alive == exitCode = <<>>

(* ---------------- DatabaseService ---------------- *)
ValidIdMut(id) == id > 0 /\ id < MaxValidId

ValidIdLowMut(id) == id >= 0 /\ id <= MaxValidId

ValidId(id) == id > 0 /\ id <= MaxValidId

fetchMessageById(id) ==
    IF ValidId(id)
    THEN [ok |-> TRUE, val |-> "Message for ID " \o ToString(id)]
    ELSE [ok |-> FALSE, val |-> "Invalid ID: " \o ToString(id)]

(* ---------------- log records ---------------- *)
\* kind and id name the statement that wrote the record and the task it was
\* written for; msg is the string streamed last; text is the whole line
FetchedRecord(id, msg) ==
    [kind |-> "Fetched", id |-> id, msg |-> msg,
     text |-> "Task " \o ToString(id) \o ": Fetched -> " \o msg]

ErrorRecord(id, what) ==
    [kind |-> "Error", id |-> id, msg |-> what,
     text |-> "Task " \o ToString(id) \o ": Error -> " \o what]

ProcessedMessageMut(id, msg) == "Processed Task " \o msg

ProcessedMessage(id, msg) == "Processed Task " \o ToString(id) \o ": " \o msg

\* MiddlewareService::sendMessage(m), called while processing task id
SendRecord(id, m) ==
    [kind |-> "Sending", id |-> id, msg |-> m,
     text |-> "Middleware: Sending -> " \o m]

(* ---------------- MessageQueue::push ---------------- *)
PushLockMut(t) ==
    /\ Alive
    /\ pc[t] = "pushLock"
    /\ queueMutex' = t
    /\ pc' = [pc EXCEPT ![t] = "pushAppend"]
    /\ UNCHANGED <<tasks, cv, taskId, message, arg, i, log, pushed, popped,
                   invoked, finished, spurious, exitCode>>

\* std::lock_guard<std::mutex> lock(queueMutex)
PushLock(t) ==
    /\ Alive
    /\ pc[t] = "pushLock"
    /\ queueMutex = NoThread
    /\ queueMutex' = t
    /\ pc' = [pc EXCEPT ![t] = "pushAppend"]
    /\ UNCHANGED <<tasks, cv, taskId, message, arg, i, log, pushed, popped,
                   invoked, finished, spurious, exitCode>>

EnqueueMut(q, v) == <<v>> \o q

\* std::queue::push
Enqueue(q, v) == Append(q, v)

PushAppend(t) ==
    /\ Alive
    /\ pc[t] = "pushAppend"
    /\ tasks' = Enqueue(tasks, arg[t][1])
    /\ pushed' = Append(pushed, arg[t][1])
    /\ pc' = [pc EXCEPT ![t] = "pushNotify"]
    /\ UNCHANGED <<queueMutex, cv, taskId, message, arg, i, log, popped,
                   invoked, finished, spurious, exitCode>>

NotifyTargetsMut == {}

NotifyTargets == cv

PushNotify(t) ==
    /\ Alive
    /\ pc[t] = "pushNotify"
    /\ IF NotifyTargets = {}
       THEN /\ pc' = [pc EXCEPT ![t] = "pushUnlock"]
            /\ cv' = cv
       ELSE \E w \in NotifyTargets :
               /\ cv' = cv \ {w}
               /\ pc' = [pc EXCEPT ![t] = "pushUnlock", ![w] = "woken"]
    /\ UNCHANGED <<tasks, queueMutex, taskId, message, arg, i, log, pushed,
                   popped, invoked, finished, spurious, exitCode>>

PushUnlockKeepsMut(t) ==
    /\ Alive
    /\ pc[t] = "pushUnlock"
    /\ pc' = [pc EXCEPT ![t] = "pushRet"]
    /\ arg' = [arg EXCEPT ![t] = <<>>]
    /\ UNCHANGED <<tasks, queueMutex, cv, taskId, message, i, log, pushed,
                   popped, invoked, finished, spurious, exitCode>>

PushUnlock(t) ==
    /\ Alive
    /\ pc[t] = "pushUnlock"
    /\ queueMutex' = IF queueMutex = t THEN NoThread ELSE queueMutex
    /\ pc' = [pc EXCEPT ![t] = "pushRet"]
    /\ arg' = [arg EXCEPT ![t] = <<>>]
    /\ UNCHANGED <<tasks, cv, taskId, message, i, log, pushed, popped,
                   invoked, finished, spurious, exitCode>>

(* ---------------- MessageQueue::pop ---------------- *)
\* the top of the worker's loop: "spawned" while the thread has not yet run,
\* "idle" once it has come back from processTask
LoopTopMut == {"spawned"}

\* the call of pop at the top of while (true), first or later iteration
LoopTop == {"spawned", "idle"}

PopLock(w) ==
    /\ Alive
    /\ pc[w] \in LoopTop
    /\ queueMutex = NoThread
    /\ queueMutex' = w
    /\ pc' = [pc EXCEPT ![w] = "popCheck"]
    /\ UNCHANGED <<tasks, cv, taskId, message, arg, i, log, pushed, popped,
                   invoked, finished, spurious, exitCode>>

\* the predicate of cv.wait
WaitPredicate == tasks # <<>>

PopCheckMut(w) ==
    /\ Alive
    /\ pc[w] \in {"popCheck", "popRecheck"}
    /\ IF WaitPredicate
       THEN /\ pc' = [pc EXCEPT ![w] = "popFront"]
            /\ UNCHANGED <<queueMutex, cv>>
       ELSE /\ pc' = [pc EXCEPT ![w] = "waiting"]
            /\ queueMutex' = queueMutex
            /\ cv' = cv \cup {w}
    /\ UNCHANGED <<tasks, taskId, message, arg, i, log, pushed, popped,
                   invoked, finished, spurious, exitCode>>

\* cv.wait(lock, predicate): returns at once when the predicate holds, else
\* releases the lock and suspends the caller
PopCheck(w) ==
    /\ Alive
    /\ pc[w] \in {"popCheck", "popRecheck"}
    /\ IF WaitPredicate
       THEN /\ pc' = [pc EXCEPT ![w] = "popFront"]
            /\ UNCHANGED <<queueMutex, cv>>
       ELSE /\ pc' = [pc EXCEPT ![w] = "waiting"]
            /\ queueMutex' = IF queueMutex = w THEN NoThread ELSE queueMutex
            /\ cv' = cv \cup {w}
    /\ UNCHANGED <<tasks, taskId, message, arg, i, log, pushed, popped,
                   invoked, finished, spurious, exitCode>>

SpuriousWake(w) ==
    /\ Alive
    /\ w \in cv
    /\ spurious < MaxSpurious
    /\ spurious' = spurious + 1
    /\ cv' = cv \ {w}
    /\ pc' = [pc EXCEPT ![w] = "woken"]
    /\ UNCHANGED <<tasks, queueMutex, taskId, message, arg, i, log, pushed,
                   popped, invoked, finished, exitCode>>

AfterWakeMut == "popFront"

\* cv.wait(lock, pred) evaluates pred again after every wake-up
AfterWake == "popRecheck"

PopRelock(w) ==
    /\ Alive
    /\ pc[w] = "woken"
    /\ queueMutex = NoThread
    /\ queueMutex' = w
    /\ pc' = [pc EXCEPT ![w] = AfterWake]
    /\ UNCHANGED <<tasks, cv, taskId, message, arg, i, log, pushed, popped,
                   invoked, finished, spurious, exitCode>>

FrontValuesMut == IF tasks # <<>> THEN {tasks[Len(tasks)]} ELSE IdSet

\* front() of an empty std::queue is undefined: any value may come back
FrontValues == IF tasks # <<>> THEN {Head(tasks)} ELSE IdSet

PopFront(w) ==
    /\ Alive
    /\ pc[w] = "popFront"
    /\ \E v \in FrontValues : taskId' = [taskId EXCEPT ![w] = <<v>>]
    /\ pc' = [pc EXCEPT ![w] = "popRemove"]
    /\ UNCHANGED <<tasks, queueMutex, cv, message, arg, i, log, pushed,
                   popped, invoked, finished, spurious, exitCode>>

RemoveHeadMut(q) == q

RemoveHeadAllMut(q) == <<>>

RemoveHead(q) == IF q # <<>> THEN Tail(q) ELSE q

PopRemove(w) ==
    /\ Alive
    /\ pc[w] = "popRemove"
    /\ tasks' = RemoveHead(tasks)
    /\ popped' = Append(popped, taskId[w][1])
    /\ queueMutex' = IF queueMutex = w THEN NoThread ELSE queueMutex
    /\ pc' = [pc EXCEPT ![w] = "process"]
    /\ UNCHANGED <<cv, taskId, message, arg, i, log, pushed, invoked,
                   finished, spurious, exitCode>>

(* ---------------- worker loop and processTask ---------------- *)
\* while (true)
LoopCondMut == FALSE

LoopCond == TRUE

AfterTaskMut == "exited"

AfterTask == IF LoopCond THEN "idle" ELSE "exited"

CatchTargetMut == "terminated"

\* catch (const std::exception&) in processTask: the call returns normally
CatchTarget == AfterTask

ProcessTask(w) ==
    /\ Alive
    /\ pc[w] = "process"
    /\ LET id == taskId[w][1]
           r == fetchMessageById(id)
       IN /\ invoked' = invoked (+) SetToBag({id})
          /\ IF r.ok
             THEN /\ message' = [message EXCEPT ![w] = <<r.val>>]
                  /\ log' = log (+) SetToBag({FetchedRecord(id, r.val)})
                  /\ pc' = [pc EXCEPT ![w] = "send"]
                  /\ finished' = finished
                  /\ taskId' = taskId
             ELSE /\ message' = message
                  /\ log' = log (+) SetToBag({ErrorRecord(id, r.val)})
                  /\ pc' = [pc EXCEPT ![w] = CatchTarget]
                  /\ finished' = finished (+) SetToBag({id})
                  /\ taskId' = [taskId EXCEPT ![w] = <<>>]
    /\ UNCHANGED <<tasks, queueMutex, cv, arg, i, pushed, popped, spurious,
                   exitCode>>

SendMessageMut(w) ==
    /\ Alive
    /\ pc[w] = "send"
    /\ LET id == taskId[w][1]
           m == ProcessedMessage(id, message[w][1])
       IN /\ log' = log (+) SetToBag({SendRecord(id, m)})
          /\ finished' = finished (+) SetToBag({id})
          /\ tasks' = Enqueue(tasks, id)
    /\ message' = [message EXCEPT ![w] = <<>>]
    /\ taskId' = [taskId EXCEPT ![w] = <<>>]
    /\ pc' = [pc EXCEPT ![w] = AfterTask]
    /\ UNCHANGED <<queueMutex, cv, arg, i, pushed, popped, invoked,
                   spurious, exitCode>>

SendMessage(w) ==
    /\ Alive
    /\ pc[w] = "send"
    /\ LET id == taskId[w][1]
           m == ProcessedMessage(id, message[w][1])
       IN /\ log' = log (+) SetToBag({SendRecord(id, m)})
          /\ finished' = finished (+) SetToBag({id})
    /\ message' = [message EXCEPT ![w] = <<>>]
    /\ taskId' = [taskId EXCEPT ![w] = <<>>]
    /\ pc' = [pc EXCEPT ![w] = AfterTask]
    /\ UNCHANGED <<tasks, queueMutex, cv, arg, i, pushed, popped, invoked,
                   spurious, exitCode>>

\* the steps a worker takes by its own code
WorkerRun(w) ==
    \/ PopLock(w)
    \/ PopCheck(w)
    \/ PopRelock(w)
    \/ PopFront(w)
    \/ PopRemove(w)
    \/ ProcessTask(w)
    \/ SendMessage(w)

WorkerStep(w) == WorkerRun(w) \/ SpuriousWake(w)

PushStep(t) ==
    \/ PushLock(t)
    \/ PushAppend(t)
    \/ PushNotify(t)
    \/ PushUnlock(t)

(* ---------------- main ---------------- *)
MainSpawn ==
    /\ Alive
    /\ pc["main"] = "spawn"
    /\ IF i < NumWorkers
       THEN /\ pc' = [pc EXCEPT ![WorkerName[i + 1]] = "spawned"]
            /\ i' = i + 1
       ELSE /\ pc' = [pc EXCEPT !["main"] = "seed"]
            /\ i' = 1
    /\ UNCHANGED <<tasks, queueMutex, cv, taskId, message, arg, log, pushed,
                   popped, invoked, finished, spurious, exitCode>>

MainSeed ==
    /\ Alive
    /\ pc["main"] = "seed"
    /\ IF i <= NumTasks
       THEN /\ arg' = [arg EXCEPT !["main"] = <<i>>]
            /\ pc' = [pc EXCEPT !["main"] = "pushLock"]
            /\ i' = i
       ELSE /\ arg' = arg
            /\ pc' = [pc EXCEPT !["main"] = "shutdown"]
            /\ i' = 0
    /\ UNCHANGED <<tasks, queueMutex, cv, taskId, message, log, pushed,
                   popped, invoked, finished, spurious, exitCode>>

MainPushRet ==
    /\ Alive
    /\ pc["main"] = "pushRet"
    /\ i' = i + 1
    /\ pc' = [pc EXCEPT !["main"] = "seed"]
    /\ UNCHANGED <<tasks, queueMutex, cv, taskId, message, arg, log, pushed,
                   popped, invoked, finished, spurious, exitCode>>

\* for (auto& worker : workers) worker.join(); return 0;
\* join returns only once the worker's thread function has returned, and
\* returning from main ends the process with every thread in it
\* the record of the outer catch: LOGGER << "Application Error: " << ex.what()
ApplicationErrorRecord(what) ==
    [kind |-> "Application", id |-> 0, msg |-> what,
     text |-> "Application Error: " \o what]

JoinableMut(k) == FALSE

\* std::thread::joinable of workers[k - 1] inside the join loop: the thread
\* was started by emplace_back and has not been joined; join() on any other
\* thread object throws std::system_error
Joinable(k) == pc[WorkerName[k]] # "unstarted" /\ k > i

MainJoin ==
    /\ Alive
    /\ pc["main"] \in {"shutdown", "joining", "catch", "returned"}
    /\ CASE pc["main"] = "shutdown" ->
              /\ pc' = [pc EXCEPT !["main"] =
                          IF i < NumWorkers
                          THEN IF Joinable(i + 1) THEN "joining" ELSE "catch"
                          ELSE "returned"]
              /\ UNCHANGED <<i, exitCode, log>>
         [] pc["main"] = "joining" ->
              /\ pc[WorkerName[i + 1]] = "exited"
              /\ pc' = [pc EXCEPT !["main"] = "shutdown"]
              /\ i' = i + 1
              /\ UNCHANGED <<exitCode, log>>
         [] pc["main"] = "catch" ->
              /\ log' = log (+) SetToBag({ApplicationErrorRecord("std::system_error")})
              /\ pc' = [pc EXCEPT !["main"] = "returned"]
              /\ UNCHANGED <<i, exitCode>>
         [] pc["main"] = "returned" ->
              /\ exitCode' = <<0>>
              /\ UNCHANGED <<pc, i, log>>
    /\ UNCHANGED <<tasks, queueMutex, cv, taskId, message, arg, pushed,
                   popped, invoked, finished, spurious>>

Init ==
    /\ tasks = <<>>
    /\ queueMutex = NoThread
    /\ cv = {}
    /\ pc = [t \in Threads |-> IF t = "main" THEN "spawn"
                               ELSE IF t \in Workers THEN "unstarted" ELSE "off"]
    /\ taskId = [w \in Workers |-> <<>>]
    /\ message = [w \in Workers |-> <<>>]
    /\ arg = [t \in Pushers |-> <<>>]
    /\ i = 0
    /\ log = EmptyBag
    /\ pushed = <<>>
    /\ popped = <<>>
    /\ invoked = EmptyBag
    /\ finished = EmptyBag
    /\ spurious = 0
    /\ exitCode = <<>>

MainStep ==
    \/ MainSpawn
    \/ MainSeed
    \/ MainPushRet
    \/ MainJoin
    \/ PushStep("main")

Next ==
    \/ MainStep
    \/ \E w \in Workers : WorkerStep(w)

Spec == Init /\ [][Next]_vars

\* every thread that can take a step of its code eventually does; a spurious
\* wake-up may happen but is never owed
Progress == MainStep \/ \E w \in Workers : WorkerRun(w)

FairSpec == Spec /\ WF_vars(Progress)

(* ---------------- the variant whose main detaches ---------------- *)
\* DistributedSystemWithSOLID.cpp: the same classes and worker loop; main ends
\* with for (auto& worker : workers) worker.detach(); return 0;
\* Returning from main destroys taskQueue and taskProcessor, which the
\* detached workers still use (undefined), and then ends the process: until
\* the process has ended the workers may go on as before or be cut off at
\* any step.
MainDetachWaitsMut ==
    /\ Alive
    /\ pc["main"] \in {"shutdown", "returned"}
    /\ CASE pc["main"] = "shutdown" ->
              /\ IF i < NumWorkers
                 THEN /\ pc[WorkerName[i + 1]] = "exited"
                      /\ i' = i + 1
                      /\ pc' = pc
                 ELSE i' = i /\ pc' = [pc EXCEPT !["main"] = "returned"]
              /\ UNCHANGED exitCode
         [] pc["main"] = "returned" ->
              /\ exitCode' = <<0>>
              /\ UNCHANGED <<pc, i>>
    /\ UNCHANGED <<tasks, queueMutex, cv, taskId, message, arg, log, pushed,
                   popped, invoked, finished, spurious>>

MainDetach ==
    /\ Alive
    /\ pc["main"] \in {"shutdown", "returned"}
    /\ CASE pc["main"] = "shutdown" ->
              /\ IF i < NumWorkers
                 THEN i' = i + 1 /\ pc' = pc
                 ELSE i' = i /\ pc' = [pc EXCEPT !["main"] = "returned"]
              /\ UNCHANGED exitCode
         [] pc["main"] = "returned" ->
              /\ exitCode' = <<0>>
              /\ UNCHANGED <<pc, i>>
    /\ UNCHANGED <<tasks, queueMutex, cv, taskId, message, arg, log, pushed,
                   popped, invoked, finished, spurious>>

MainStepD ==
    \/ MainSpawn
    \/ MainSeed
    \/ MainPushRet
    \/ MainDetach
    \/ PushStep("main")

NextD ==
    \/ MainStepD
    \/ \E w \in Workers : WorkerStep(w)

SpecD == Init /\ [][NextD]_vars

ProgressD == MainStepD \/ \E w \in Workers : WorkerRun(w)

FairSpecD == SpecD /\ WF_vars(ProgressD)

(* ---------------- queue harness ---------------- *)
\* Producer threads call push with any ids, concurrently with 1 or more
\* workers running the main's worker loop on the same queue.
Started == {w \in Workers : pc[w] # "unstarted"}

PushesBegun ==
    Len(pushed) + Cardinality({p \in Pushers : pc[p] \in {"pushLock", "pushAppend"}})

HarnessCall(p) ==
    /\ Alive
    /\ pc[p] = "pushRet"
    /\ PushesBegun < MaxPush
    /\ \E id \in IdSet : arg' = [arg EXCEPT ![p] = <<id>>]
    /\ pc' = [pc EXCEPT ![p] = "pushLock"]
    /\ UNCHANGED <<tasks, queueMutex, cv, taskId, message, i, log, pushed,
                   popped, invoked, finished, spurious, exitCode>>

InitQ ==
    /\ tasks = <<>>
    /\ queueMutex = NoThread
    /\ cv = {}
    /\ \E n \in 1..NumWorkers :
          pc = [t \in Threads |->
                  IF t = "main" THEN "off"
                  ELSE IF t \in Producers THEN "pushRet"
                  ELSE IF t \in {WorkerName[k] : k \in 1..n} THEN "spawned"
                  ELSE "unstarted"]
    /\ taskId = [w \in Workers |-> <<>>]
    /\ message = [w \in Workers |-> <<>>]
    /\ arg = [t \in Pushers |-> <<>>]
    /\ i = 0
    /\ log = EmptyBag
    /\ pushed = <<>>
    /\ popped = <<>>
    /\ invoked = EmptyBag
    /\ finished = EmptyBag
    /\ spurious = 0
    /\ exitCode = <<>>

NextQ ==
    \/ \E p \in Producers : HarnessCall(p)
    \/ \E p \in Producers : PushStep(p)
    \/ \E w \in Workers : WorkerStep(w)

SpecQ == InitQ /\ [][NextQ]_vars

\* the harness may stop pushing at any time; a push that was called completes
ProgressQ ==
    \/ \E p \in Producers : PushStep(p)
    \/ \E w \in Workers : WorkerRun(w)

FairSpecQ == SpecQ /\ WF_vars(ProgressQ)

(* ---------------- handler harness ---------------- *)
\* One thread calls processTask(id) once, for any id of TestIds; pushed and
\* popped keep the id the call was made with.
InitH ==
    /\ tasks = <<>>
    /\ queueMutex = NoThread
    /\ cv = {}
    /\ pc = [t \in Threads |-> IF t = "w0" THEN "process"
                               ELSE IF t \in Workers THEN "unstarted" ELSE "off"]
    /\ \E id \in TestIds :
          /\ taskId = [w \in Workers |-> IF w = "w0" THEN <<id>> ELSE <<>>]
          /\ pushed = <<id>>
          /\ popped = <<id>>
    /\ message = [w \in Workers |-> <<>>]
    /\ arg = [t \in Pushers |-> <<>>]
    /\ i = 0
    /\ log = EmptyBag
    /\ invoked = EmptyBag
    /\ finished = EmptyBag
    /\ spurious = 0
    /\ exitCode = <<>>

NextH == ProcessTask("w0") \/ SendMessage("w0")

SpecH == InitH /\ [][NextH]_vars

(* ======================= properties ======================= *)
IsPrefix(s, t) == Len(s) <= Len(t) /\ SubSeq(t, 1, Len(s)) = s

Range(s) == {s[k] : k \in DOMAIN s}

BagOfSeq(s) == [v \in Range(s) |-> Cardinality({k \in DOMAIN s : s[k] = v})]

SameBag(a, b) == (a \sqsubseteq b) /\ (b \sqsubseteq a)

Digit == <<"1", "2", "3", "4", "5">>

\* the strings the specification promises for ids 1..5, written out
ExpectedMessage == [k \in 1..5 |-> "Message for ID " \o Digit[k]]

ExpectedProcessed ==
    [k \in 1..5 |-> "Processed Task " \o Digit[k] \o ": Message for ID " \o Digit[k]]

ExpectedFetchedRecord(k) ==
    [kind |-> "Fetched", id |-> k, msg |-> ExpectedMessage[k],
     text |-> "Task " \o Digit[k] \o ": Fetched -> " \o ExpectedMessage[k]]

ExpectedSendRecord(k) ==
    [kind |-> "Sending", id |-> k, msg |-> ExpectedProcessed[k],
     text |-> "Middleware: Sending -> " \o ExpectedProcessed[k]]

ExpectedLog ==
    SetToBag({ExpectedFetchedRecord(k) : k \in 1..5}
             \cup {ExpectedSendRecord(k) : k \in 1..5})

OncePerSeed == SetToBag(1..5)

\* C1: the values pop has returned, in the order of the removals, are always
\* a prefix of the values push has appended, in the order of the appends,
\* with any number of producers and workers interleaved.
C1_Fifo == IsPrefix(popped, pushed)

C1_Witness ==
    /\ pushed = <<2, 1>>
    /\ popped = <<2, 1>>
    /\ Cardinality(Started) >= 2

Drained ==
    /\ tasks = <<>>
    /\ \A w \in Workers : pc[w] \notin {"popFront", "popRemove", "process", "send"}

\* C2: no id is handed to processTask more often than it was pushed, and once
\* the queue is drained (it is empty and no worker holds a task) every pushed
\* id has been handed to processTask exactly as often as it was pushed and
\* each of these calls has returned.
C2_ExactlyOnce ==
    /\ invoked \sqsubseteq BagOfSeq(pushed)
    /\ Drained => /\ SameBag(invoked, BagOfSeq(pushed))
                  /\ SameBag(finished, invoked)

C2_Witness ==
    /\ Drained
    /\ Len(pushed) = 2
    /\ pushed[1] # pushed[2]
    /\ BagCardinality(invoked) = 2
    /\ Cardinality(Started) >= 2

\* C3: a worker that reads or removes the head holds a non-empty queue, also
\* after a wake-up that found the queue empty again, and pop has never
\* returned more often than push has appended.
C3_NeverPopEmpty ==
    /\ \A w \in Workers : pc[w] \in {"popFront", "popRemove"} => tasks # <<>>
    /\ Len(popped) <= Len(pushed)

C3_Witness ==
    \E w \in Workers :
        /\ pc[w] = "popRecheck"
        /\ tasks = <<>>
        /\ pushed # <<>>
        /\ spurious = 0

C4_PushSignals ==
    \E p \in Producers :
        /\ pc[p] = "pushNotify"
        /\ Len(pushed) = 1
        /\ cv = Started

\* C4: while exactly one push has appended, at most one pop has returned, it
\* returned the pushed value and at most one worker is past pop; and when the
\* push signals with every started worker suspended in pop, a pop does
\* eventually return.
C4_OnePushOnePop ==
    /\ [](Len(pushed) = 1 =>
            /\ Len(popped) <= 1
            /\ IsPrefix(popped, pushed)
            /\ Cardinality({w \in Workers : pc[w] \in {"process", "send"}}) <= 1
            /\ Cardinality({w \in Workers : pc[w] \in {"popFront", "popRemove"}})
                 + Len(popped) <= 1)
    /\ (C4_PushSignals ~> (Len(popped) >= 1))

C4_Witness ==
    \E w \in Workers :
        /\ pc[w] = "woken"
        /\ cv = Started \ {w}
        /\ Cardinality(Started) >= 2
        /\ Len(pushed) = 1
        /\ tasks = pushed
        /\ spurious = 0

C5_Done ==
    /\ SameBag(log, ExpectedLog)
    /\ SameBag(invoked, OncePerSeed)
    /\ SameBag(finished, OncePerSeed)

\* C5: in every fair run of the driver, with either main, the log ends up,
\* and stays, exactly the five Fetched and the five Sending records of ids
\* 1..5 with the promised strings, each id handled once; and no other record
\* (so no error record) is ever written.
C5_EndToEnd == <>[]C5_Done /\ [](log \sqsubseteq ExpectedLog)

C6_Input == popped[1]

\* C6: for an id outside [1,5] the lookup fails, and the processTask call
\* writes exactly one record, an Error record for that id, and neither a
\* Fetched record nor a notify call.
C6_InvalidId ==
    (C6_Input < 1 \/ C6_Input > 5) =>
        /\ ~fetchMessageById(C6_Input).ok
        /\ pc["w0"] # "send"
        /\ pc["w0"] = "process" => log = EmptyBag
        /\ pc["w0"] # "process" =>
              /\ BagCardinality(log) = 1
              /\ \A r \in BagToSet(log) : r.kind = "Error" /\ r.id = C6_Input
              /\ C6_Input = 0 =>
                    \A r \in BagToSet(log) : r.text = "Task 0: Error -> Invalid ID: 0"
              /\ C6_Input = -3 =>
                    \A r \in BagToSet(log) : r.text = "Task -3: Error -> Invalid ID: -3"
              /\ C6_Input = 6 =>
                    \A r \in BagToSet(log) : r.text = "Task 6: Error -> Invalid ID: 6"
              /\ C6_Input = 100 =>
                    \A r \in BagToSet(log) : r.text = "Task 100: Error -> Invalid ID: 100"

C6_Witness ==
    /\ C6_Input = 100
    /\ pc["w0"] = "idle"
    /\ BagCardinality(log) = 1

C7_FailureStep(w) ==
    /\ pc[w] = "process"
    /\ pc'[w] # "process"
    /\ taskId[w][1] \notin 1..5

\* C7: no worker is ever terminated, and the step in which a worker's
\* processTask call fails on an id outside [1,5] takes that worker back to
\* the top of its loop and changes neither the queue, the lock, the waiting
\* set nor any other worker.
C7_Absorbed ==
    /\ [](\A t \in Threads : pc[t] \notin {"terminated", "exited"})
    /\ [][\A w \in Workers :
            C7_FailureStep(w) =>
                /\ pc'[w] = "idle"
                /\ tasks' = tasks
                /\ queueMutex' = queueMutex
                /\ cv' = cv
                /\ \A v \in Workers \ {w} : pc'[v] = pc[v] /\ taskId'[v] = taskId[v]]_vars

C7_Witness ==
    /\ Started = {"w0"}
    /\ popped = <<0, 1>>
    /\ pc["w0"] = "send"

C8_Input == popped[1]

\* C8: for an id in [1,5] the lookup succeeds with "Message for ID <id>", and
\* that string is the message processTask holds and logs.
C8_ValidId ==
    C8_Input \in 1..5 =>
        /\ fetchMessageById(C8_Input) = [ok |-> TRUE, val |-> ExpectedMessage[C8_Input]]
        /\ pc["w0"] = "send" =>
              /\ message["w0"] = <<ExpectedMessage[C8_Input]>>
              /\ log = SetToBag({ExpectedFetchedRecord(C8_Input)})

C8_Witness ==
    /\ C8_Input = 5
    /\ pc["w0"] = "send"

\* C9: whenever the queue lock is free, the appends minus the removals equal
\* the length of the queue, and the difference is not negative.
C9_LengthAccounting ==
    queueMutex = NoThread =>
        /\ Len(pushed) - Len(popped) = Len(tasks)
        /\ Len(pushed) - Len(popped) >= 0

C9_Witness ==
    /\ queueMutex = NoThread
    /\ Len(pushed) = 2
    /\ Len(popped) = 1
    /\ Len(tasks) = 1

C10_Hung ==
    /\ tasks = <<>>
    /\ SameBag(finished, OncePerSeed)
    /\ cv = Workers
    /\ \A w \in Workers : pc[w] = "waiting"
    /\ pc["main"] = "joining"

\* C10: in the join variant main never returns, and every fair run reaches
\* and then keeps the state with the queue empty, the five seeded tasks
\* processed, all three workers suspended in pop and main inside join.
C10_JoinHangs == <>[]C10_Hung /\ [](pc["main"] # "returned" /\ Alive)

C10_Witness == C10_Hung /\ spurious = MaxSpurious

MainShuttingDown == pc["main"] \in {"shutdown", "returned"}

Holding == {w \in Workers : pc[w] \in {"process", "send"}}

\* the moves of a worker: Idle -> (in pop, Blocked while the queue is empty)
\* -> Processing -> Idle
C12_Cycle ==
    {<<"unstarted", "spawned">>, <<"spawned", "popCheck">>, <<"idle", "popCheck">>,
     <<"popCheck", "waiting">>, <<"popRecheck", "waiting">>,
     <<"waiting", "woken">>, <<"woken", "popRecheck">>,
     <<"popCheck", "popFront">>, <<"popRecheck", "popFront">>,
     <<"popFront", "popRemove">>, <<"popRemove", "process">>,
     <<"process", "send">>, <<"process", "idle">>, <<"send", "idle">>}

C12_State ==
    /\ \A w \in Workers :
          /\ pc[w] \notin {"exited", "terminated"}
          /\ w \in Holding => Len(taskId[w]) = 1 /\ taskId[w][1] \in Range(popped)
          /\ pc[w] \in LoopTop \cup {"unstarted", "popCheck", "popRecheck",
                                    "waiting", "woken"} => taskId[w] = <<>>
          /\ pc[w] = "waiting" <=> w \in cv
    /\ Len(popped) - BagCardinality(finished) = Cardinality(Holding)

\* C12: a worker only moves along Idle -> pop (suspended only when it found
\* the queue empty) -> Processing -> Idle and never leaves the loop; it is in
\* Processing only with an id that pop removed, and the tasks popped and not
\* yet finished are exactly one per processing worker.
C12_Lifecycle ==
    /\ []C12_State
    /\ [][\A w \in Workers :
            pc'[w] # pc[w] =>
                /\ <<pc[w], pc'[w]>> \in C12_Cycle
                /\ pc'[w] = "waiting" => tasks = <<>>]_vars

C12_Witness ==
    /\ pc["w0"] = "send"
    /\ pc["w1"] = "spawned"
    /\ pc["w2"] = "waiting"
    /\ BagCardinality(finished) = 4

C13_Quiet ==
    /\ \A p \in Producers : pc[p] = "pushRet"
    /\ \A w \in Workers : pc[w] \in {"unstarted", "waiting"}
    /\ queueMutex = NoThread

\* C13: under fair scheduling every run ends, for good, with every producer
\* returned from its push calls (so no push call stays pending, whatever the
\* queue held and however many workers were suspended in pop), the lock free
\* and every started worker in the empty-queue wait of pop: no thread stays
\* stopped anywhere else.
C13_PushCompletes == <>[]C13_Quiet

C13_Witness ==
    /\ pc["p1"] = "pushRet"
    /\ pc["p2"] = "pushLock"
    /\ Len(tasks) = 1
    /\ Cardinality(cv) = 2
    /\ Cardinality(Started) = 3
    /\ queueMutex \in Workers


Sending(k) == {w \in Workers : pc[w] = "send" /\ taskId[w] = <<k>>}

C14_State ==
    /\ \A r \in BagToSet(log) :
          r.kind = "Sending" => r.id \in 1..5 /\ r = ExpectedSendRecord(r.id)
    /\ \A k \in 1..5 :
          /\ CopiesIn(ExpectedFetchedRecord(k), log) <= 1
          /\ CopiesIn(ExpectedSendRecord(k), log) + Cardinality(Sending(k))
                = CopiesIn(ExpectedFetchedRecord(k), log)
    /\ \A w \in Workers :
          pc[w] = "send" => message[w] = <<ExpectedMessage[taskId[w][1]]>>

C14_Step ==
    log' # log =>
       \E w \in Workers :
          \/ /\ pc[w] = "process"
             /\ pc'[w] = "send"
             /\ log' = log (+) SetToBag({ExpectedFetchedRecord(taskId[w][1])})
          \/ /\ pc[w] = "send"
             /\ pc'[w] # "send"
             /\ log' = log (+) SetToBag({ExpectedSendRecord(taskId[w][1])})

\* C14: for ids 1..5 a "Sending" record always carries "Processed Task <id>:
\* Message for ID <id>" of its own id; at any moment the Fetched records of an
\* id number the sendMessage calls made for it plus the workers between the
\* two steps, at most one in all, so a call never precedes its Fetched record
\* and is made once; every step that logs is one of these two steps of one
\* worker, with three workers interleaved.
C14_FetchedThenSend == []C14_State /\ [][C14_Step]_vars

C14_Witness ==
    /\ pc["w0"] = "send" /\ taskId["w0"] = <<2>>
    /\ pc["w1"] = "send" /\ taskId["w1"] = <<3>>
    /\ CopiesIn(ExpectedSendRecord(1), log) = 1
    /\ CopiesIn(ExpectedFetchedRecord(3), log) = 1


InCritical(t) ==
    pc[t] \in {"pushAppend", "pushNotify", "pushUnlock",
               "popCheck", "popRecheck", "popFront", "popRemove"}

C15_State ==
    /\ Cardinality({t \in Threads : InCritical(t)}) <= 1
    /\ \A t \in Threads : InCritical(t) <=> queueMutex = t
    /\ \A w \in cv : ~InCritical(w) /\ queueMutex # w

C15_Step ==
    tasks' # tasks =>
       /\ queueMutex \in Threads
       /\ InCritical(queueMutex)
       /\ pc'[queueMutex] # pc[queueMutex]
       /\ \A u \in Threads \ {queueMutex} : pc'[u] = pc[u]

\* C15: at most one thread is between acquiring and releasing queueMutex in
\* push or pop, and that thread is the owner of the mutex; a worker suspended
\* on cv is not among them; every step that changes the queue's sequence is a
\* step of the thread that owns the mutex.
C15_MutualExclusion == []C15_State /\ [][C15_Step]_vars

C15_Witness ==
    /\ pc["p1"] = "pushAppend"
    /\ pc["p2"] = "pushLock"
    /\ \E w \in Workers : pc[w] = "woken"
    /\ \E w \in Workers : pc[w] = "spawned"
    /\ cv # {}


C16_OutOfOrder ==
    /\ IsPrefix(<<1, 2>>, popped)
    /\ CopiesIn(2, finished) = 1
    /\ CopiesIn(1, finished) = 0
    /\ pc["w0"] = "send"

\* C16: the ids leave the queue in the order they entered it, and nothing
\* else is fixed: whenever the lock is free every worker at the top of its
\* loop, whichever it is and whatever it did before, may be the next to take
\* it, and every worker holding a task may be the next to advance its
\* handler invocation, whatever the other workers hold.
C16_Unconstrained ==
    /\ IsPrefix(popped, pushed)
    /\ \A w \in Workers :
          (Alive /\ queueMutex = NoThread /\ pc[w] \in {"spawned", "idle"})
             => ENABLED PopLock(w)
    /\ \A w \in Workers :
          (Alive /\ pc[w] \in {"process", "send"})
             => ENABLED (ProcessTask(w) \/ SendMessage(w))

C16_Witness ==
    /\ finished = OncePerSeed
    /\ pc["w0"] = "idle"
    /\ pc["w1"] = "spawned"
    /\ pc["w2"] = "spawned"


C17_HandlerStep(w) == pc[w] \in {"process", "send"} /\ pc'[w] # pc[w]

\* C17: a step of processTask, the lookup and its outcome or the notify call,
\* leaves the queue's sequence, the mutex, the set of waiting workers and the
\* record of appends and removals as they were, and touches no other
\* thread's position, task or message; it changes only the log, the worker's
\* own locals and the count of invocations.
C17_Frame ==
    [][\A w \in Workers :
          C17_HandlerStep(w) =>
             /\ UNCHANGED <<tasks, queueMutex, cv, pushed, popped, arg, i,
                            spurious, exitCode>>
             /\ \A u \in Threads \ {w} : pc'[u] = pc[u]
             /\ \A u \in Workers \ {w} :
                   taskId'[u] = taskId[u] /\ message'[u] = message[u]]_vars

C17_Witness ==
    /\ \E w \in Workers : pc[w] = "send"
    /\ \E p \in Producers : pc[p] = "pushNotify" /\ queueMutex = p
    /\ Len(tasks) = 1
    /\ cv # {}
    /\ BagCardinality(invoked) = 1


C18_NoError ==
    /\ pc["main"] # "catch"
    /\ \A r \in BagToSet(log) : r.kind \notin {"Application", "Error"}
    /\ \A w \in Workers : pc[w] # "terminated"

\* C18: in the program that joins, main never enters its outer catch and no
\* "Application Error" record is ever logged: no lookup fails for the ids
\* 1..5, no worker ends with an exception, every push returns normally, and
\* each join is called on a thread that was started and not yet joined.
C18_OuterCatchUnused ==
    /\ C18_NoError
    /\ pc["main"] = "joining" => Joinable(i + 1)
    /\ pc["main"] \in {"shutdown", "joining", "returned"} => pushed = <<1, 2, 3, 4, 5>>

C18_Witness ==
    /\ pc["main"] = "joining"
    /\ finished = OncePerSeed
    /\ cv = Workers


HeldBy(w) == IF w \in Holding THEN BagOfSeq(taskId[w]) ELSE EmptyBag

Held == HeldBy("w0") (+) HeldBy("w1") (+) HeldBy("w2")

\* C19: in every state the bag of the ids appended so far equals the sum of
\* the bag of the ids in the queue, the bag of the ids held by workers that
\* have returned from pop and not from processTask, and the bag of the ids
\* whose processTask call has returned; each of the five ids is therefore in
\* exactly one of the three places from its push on.
C19_Conservation ==
    /\ SameBag(BagOfSeq(pushed), BagOfSeq(tasks) (+) Held (+) finished)
    /\ \A k \in Range(pushed) :
          CopiesIn(k, BagOfSeq(tasks)) + CopiesIn(k, Held) + CopiesIn(k, finished) = 1

C19_Witness ==
    /\ Len(tasks) >= 2
    /\ Cardinality(Holding) = 2
    /\ BagCardinality(finished) = 1
    /\ \E w \in Workers : pc[w] = "popRemove"


C20_State ==
    /\ \A w \in cv : pc[w] = "waiting" /\ queueMutex # w
    /\ cv # {} /\ queueMutex = NoThread =>
          /\ \A p \in Producers : pc[p] = "pushLock" => ENABLED PushLock(p)
          /\ \A w \in Workers : pc[w] \in {"spawned", "idle"} => ENABLED PopLock(w)
    /\ tasks # <<>> => ENABLED ProgressQ
    /\ tasks # <<>> /\ queueMutex = NoThread => Started \ cv # {}

\* C20: a worker suspended in pop never owns queueMutex, so with workers
\* suspended and the mutex free any push and any other pop can take it; a
\* non-empty queue always leaves some thread able to step, and once the
\* mutex is free some worker is not suspended; under fair scheduling a
\* non-empty queue is always emptied again, each removal being a pop that
\* completes.
C20_WaitReleasesLock == []C20_State /\ ((tasks # <<>>) ~> (tasks = <<>>))

C20_Witness ==
    /\ Cardinality(cv) = 2
    /\ tasks # <<>>
    /\ \E p \in Producers : queueMutex = p /\ pc[p] = "pushNotify"
    /\ \E p \in Producers : pc[p] = "pushLock"
    /\ \E w \in Workers : pc[w] = "spawned"

====
